---------------------------- MODULE Spec2Model ----------------------------
(* A model of src/channel.js: the constructors of BlendingInformation and *)
(* Channel, the four Channel getters, and the consumer around them        *)
(* (the caller that writes `x = new C(options)`, keeps the arrays it      *)
(* passed in, reads the getters and changes arrays in place).             *)
EXTENDS Integers, Sequences, FiniteSets, TLC

(***************************************************************************)
(* JavaScript values.  Every value is a record of one shape so that any    *)
(* two values can be compared:                                             *)
(*   t    the type tag                                                     *)
(*   n    the number, the boolean (0/1) or, for a plain object, the value  *)
(*        of its own `length` property                                     *)
(*   cps  the code points of a string                                      *)
(*   ref  the heap address of an array                                     *)
(***************************************************************************)
Undefined == [t |-> "undefined", n |-> 0, cps |-> <<>>, ref |-> 0]
Null == [t |-> "null", n |-> 0, cps |-> <<>>, ref |-> 0]
Num(k) == [t |-> "number", n |-> k, cps |-> <<>>, ref |-> 0]
Bool(b) == [t |-> "boolean", n |-> (IF b THEN 1 ELSE 0), cps |-> <<>>, ref |-> 0]
Str(c) == [t |-> "string", n |-> 0, cps |-> c, ref |-> 0]
Arr(r) == [t |-> "array", n |-> 0, cps |-> <<>>, ref |-> r]
\* the plain object {length: k}: it has a length and no iterator
Obj(k) == [t |-> "object", n |-> k, cps |-> <<>>, ref |-> 0]

\* code points outside the Basic Multilingual Plane take two UTF-16 code units
Astral == {"U+1F600"}
CodeUnits(cp) == IF cp \in Astral THEN 2 ELSE 1

RECURSIVE Utf16Length(_)
Utf16Length(c) == IF c = <<>> THEN 0 ELSE CodeUnits(Head(c)) + Utf16Length(Tail(c))

IsNullish_UndefinedOnly(v) == v.t = "undefined"
\* `v == null`
IsNullish(v) == v.t \in {"undefined", "null"}
IsUndefined_NullOnly(v) == v.t = "null"
\* `v === undefined`
IsUndefined(v) == v.t = "undefined"
\* `Array.isArray(v)`
IsArray(v) == v.t = "array"

\* `v.length` for a v that is neither undefined nor null
Length(v, h) ==
  CASE v.t = "array" -> Num(Len(h[v.ref]))
    [] v.t = "string" -> Num(Utf16Length(v.cps))
    [] v.t = "object" -> Num(v.n)
    [] OTHER -> Undefined

\* `[...v]`: the elements the iterator of v yields, or a TypeError when v
\* is not iterable
Spread(v, h) ==
  CASE v.t = "array" -> [threw |-> FALSE, elems |-> h[v.ref]]
    [] v.t = "string" ->
         [threw |-> FALSE, elems |-> [i \in 1..Len(v.cps) |-> Str(<<v.cps[i]>>)]]
    [] OTHER -> [threw |-> TRUE, elems |-> <<>>]

NotIterable == "TypeError: limitValues is not iterable"

\* an object without own properties
EmptyObject == [k \in {} |-> Undefined]

\* the outcome of a `new` expression: either `this` is returned, or the
\* error propagates and the object under construction is dropped
Return(this, h) == [threw |-> FALSE, error |-> "", this |-> this, heap |-> h]
Throw(msg, this, h) == [threw |-> TRUE, error |-> msg, this |-> this, heap |-> h]

(***************************************************************************)
(* class BlendingInformation                                               *)
(***************************************************************************)
NoError == ""

ColorCheck_LengthFirst(o, h) ==
  IF IsNullish(o.color) THEN "Color is required."
  ELSE IF Length(o.color, h) # Num(3) THEN "An RGB color triplet must be provided."
  ELSE IF ~IsArray(o.color) THEN "Color must be provided as an array."
  ELSE NoError

\* the three checks on color, in the order of the code
ColorCheck(o, h) ==
  IF IsNullish(o.color) THEN "Color is required."
  ELSE IF ~IsArray(o.color) THEN "Color must be provided as an array."
  ELSE IF Length(o.color, h) # Num(3) THEN "An RGB color triplet must be provided."
  ELSE NoError

\* the three checks on thresholdValues
ThresholdValuesCheck(o, h) ==
  IF IsNullish(o.thresholdValues) THEN "Threshold values are required."
  ELSE IF ~IsArray(o.thresholdValues)
    THEN "Threshold values must be provided as an array."
  ELSE IF Length(o.thresholdValues, h) # Num(2)
    THEN "Two threshold values must be provided."
  ELSE NoError

LimitValuesArrayCheckOperand_LimitValues(o) == o.limitValues
\* the value whose array-ness the second check on limitValues tests
LimitValuesArrayCheckOperand(o) == o.thresholdValues

\* the three checks on limitValues
LimitValuesCheck(o, h) ==
  IF IsNullish(o.limitValues) THEN "Limit values are required."
  ELSE IF ~IsArray(LimitValuesArrayCheckOperand(o))
    THEN "Limit values must be provided as an array."
  ELSE IF Length(o.limitValues, h) # Num(2) THEN "Two limit values must be provided."
  ELSE NoError

CopyArray_Alias(v, h) == [threw |-> FALSE, heap |-> h, val |-> v]
\* `this.f = [...v]`: a new array holding the elements of v
CopyArray(v, h) ==
  LET s == Spread(v, h) IN
  IF s.threw THEN [threw |-> TRUE, heap |-> h, val |-> Undefined]
  ELSE [threw |-> FALSE, heap |-> Append(h, s.elems), val |-> Arr(Len(h) + 1)]

StoreAsGiven_Defaulting(this, f, v) ==
  (f :> (IF v.t = "undefined" THEN Num(1) ELSE v)) @@ this
\* `this.f = v` for the three fields that are stored as given
StoreAsGiven(this, f, v) == (f :> v) @@ this

BlendingInformation(o, h) ==
  LET this0 == StoreAsGiven(EmptyObject, "opticalPathIdentifier", o.opticalPathIdentifier)
  IN
  IF ColorCheck(o, h) # NoError THEN Throw(ColorCheck(o, h), this0, h)
  ELSE
  LET c1 == CopyArray(o.color, h)
      this1 == StoreAsGiven(("color" :> c1.val) @@ this0, "opacity", o.opacity)
  IN
  IF ThresholdValuesCheck(o, c1.heap) # NoError
    THEN Throw(ThresholdValuesCheck(o, c1.heap), this1, c1.heap)
  ELSE
  LET c2 == CopyArray(o.thresholdValues, c1.heap)
      this2 == ("thresholdValues" :> c2.val) @@ this1
  IN
  IF LimitValuesCheck(o, c2.heap) # NoError
    THEN Throw(LimitValuesCheck(o, c2.heap), this2, c2.heap)
  ELSE
  LET c3 == CopyArray(o.limitValues, c2.heap) IN
  IF c3.threw THEN Throw(NotIterable, this2, c2.heap)
  ELSE Return(StoreAsGiven(("limitValues" :> c3.val) @@ this2, "visible", o.visible),
              c3.heap)

(***************************************************************************)
(* class Channel                                                           *)
(***************************************************************************)
Channel(o, h) ==
  LET a0 == EmptyObject IN
  IF IsUndefined(o.opticalPathIdentifier)
    THEN Throw("Optical Path Identifier is required.", a0, h)
  ELSE
  LET a1 == ("opticalPathIdentifier" :> o.opticalPathIdentifier) @@ a0 IN
  IF IsUndefined(o.studyInstanceUID)
    THEN Throw("Study Instance UID is required.", a1, h)
  ELSE
  LET a2 == ("studyInstanceUID" :> o.studyInstanceUID) @@ a1 IN
  IF IsUndefined(o.seriesInstanceUID)
    THEN Throw("Series Instance UID is required.", a2, h)
  ELSE
  LET a3 == ("seriesInstanceUID" :> o.seriesInstanceUID) @@ a2 IN
  IF IsUndefined(o.sopInstanceUIDs)
    THEN Throw("SOP Instance UIDs are required.", a3, h)
  ELSE Return(("sopInstanceUIDs" :> o.sopInstanceUIDs) @@ a3, h)

\* the getters: each returns the slot of the private attribute object
opticalPathIdentifier(c) == c.attrs["opticalPathIdentifier"]
studyInstanceUID(c) == c.attrs["studyInstanceUID"]
seriesInstanceUID(c) == c.attrs["seriesInstanceUID"]
sopInstanceUIDs_SeriesSlot(c) == c.attrs["seriesInstanceUID"]
sopInstanceUIDs(c) == c.attrs["sopInstanceUIDs"]

ChannelFields ==
  {"opticalPathIdentifier", "studyInstanceUID", "seriesInstanceUID", "sopInstanceUIDs"}

Get(c, name) ==
  CASE name = "opticalPathIdentifier" -> opticalPathIdentifier(c)
    [] name = "studyInstanceUID" -> studyInstanceUID(c)
    [] name = "seriesInstanceUID" -> seriesInstanceUID(c)
    [] name = "sopInstanceUIDs" -> sopInstanceUIDs(c)

(***************************************************************************)
(* The program state: what the consumer of the module holds.               *)
(***************************************************************************)
VARIABLES
  heap,       \* the arrays: heap[r] is the contents of the array at address r
  heapIn,     \* the arrays as they were when the last constructor was called
  mutations,  \* in-place changes made to arrays since the last construction
  chArgs,     \* the options given to the last `new Channel(options)`
  chResult,   \* how that construction ended
  ch,         \* what the consumer got from it
  got,        \* the consumer's last use of a Channel accessor
  biArgs,     \* the options given to the last `new BlendingInformation(options)`
  biResult,   \* how that construction ended
  bi          \* what the consumer got from it

chVars == <<chArgs, chResult, ch, got>>
biVars == <<biArgs, biResult, bi>>
vars == <<heap, heapIn, mutations, chArgs, chResult, ch, got, biArgs, biResult, bi>>

\* bounds of the exploration
MaxMutations == 2

NoCall == [called |-> FALSE, threw |-> FALSE, error |-> NoError]
Ended(r) == [called |-> TRUE, threw |-> r.threw, error |-> r.error]

\* a failed `new` leaves the consumer without an object
NoInstance == [exists |-> FALSE, attrs |-> EmptyObject]
Instance(r) == IF r.threw THEN NoInstance ELSE [exists |-> TRUE, attrs |-> r.this]

NoObservation == [op |-> "none", name |-> "", value |-> Undefined, threw |-> FALSE]

\* an argument as the caller writes it: a value, or an array literal that
\* is allocated when the options record is built
Value(v) == [isLiteral |-> FALSE, val |-> v, lit |-> <<>>]
Literal(l) == [isLiteral |-> TRUE, val |-> Undefined, lit |-> l]

Place(h, a) ==
  IF a.isLiteral THEN [heap |-> Append(h, a.lit), val |-> Arr(Len(h) + 1)]
  ELSE [heap |-> h, val |-> a.val]

\* the inputs explored
Scalars == {Undefined, Null, Str(<<>>), Str(<<"C", "y", "5">>)}
NumberLiteral(k) == [i \in 1..k |-> Num(i)]
UidLiteral(k) == [i \in 1..k |-> Str(<<"u", IF i = 1 THEN "1" ELSE "2">>)]
NonArrays ==
  {Undefined, Null, Num(2), Str(<<"a", "b">>), Str(<<"U+1F600">>), Obj(2), Obj(3)}
ArrayLikeInputs ==
  {Value(v) : v \in NonArrays} \cup {Literal(NumberLiteral(k)) : k \in 1..4}
SopInputs ==
  {Value(v) : v \in Scalars} \cup {Literal(UidLiteral(k)) : k \in 0..2}
Elements == {Num(9)}
Identifiers == {Undefined, Str(<<"C", "y", "5">>)}
Opacities == {Undefined, Num(1)}
Visibilities == {Undefined, Bool(TRUE)}

\* in-place changes of an array: `a[i] = v`, `a.push(v)`, `a.pop()`
Changes(s) ==
  {[kind |-> "set", i |-> i, v |-> v] : i \in 1..Len(s), v \in Elements}
    \cup {[kind |-> "push", i |-> 0, v |-> v] : v \in Elements}
    \cup {[kind |-> "pop", i |-> 0, v |-> Undefined] : x \in (IF s = <<>> THEN {} ELSE {0})}

Apply(s, m) ==
  CASE m.kind = "set" -> [s EXCEPT ![m.i] = m.v]
    [] m.kind = "push" -> Append(s, m.v)
    [] m.kind = "pop" -> SubSeq(s, 1, Len(s) - 1)

Init ==
  /\ heap = <<>>
  /\ heapIn = <<>>
  /\ mutations = 0
  /\ chArgs = [opticalPathIdentifier |-> Undefined, studyInstanceUID |-> Undefined,
               seriesInstanceUID |-> Undefined, sopInstanceUIDs |-> Undefined]
  /\ chResult = NoCall
  /\ ch = NoInstance
  /\ got = NoObservation
  /\ biArgs = [opticalPathIdentifier |-> Undefined, color |-> Undefined,
               opacity |-> Undefined, thresholdValues |-> Undefined,
               limitValues |-> Undefined, visible |-> Undefined]
  /\ biResult = NoCall
  /\ bi = NoInstance

(***************************************************************************)
(* The consumer of Channel.  A behaviour follows one construction and the  *)
(* object it yields.                                                       *)
(***************************************************************************)
\* `ch = new Channel({opticalPathIdentifier, studyInstanceUID, ...})`
NewChannel ==
  /\ ~chResult.called
  /\ \E op \in Scalars, st \in Scalars, se \in Scalars, sop \in SopInputs :
      LET p == Place(<<>>, sop)
          o == [opticalPathIdentifier |-> op, studyInstanceUID |-> st,
                seriesInstanceUID |-> se, sopInstanceUIDs |-> p.val]
          r == Channel(o, p.heap)
      IN /\ chArgs' = o
         /\ heapIn' = p.heap
         /\ heap' = r.heap
         /\ chResult' = Ended(r)
         /\ ch' = Instance(r)
         /\ got' = NoObservation
         /\ mutations' = 0
         /\ UNCHANGED biVars

\* `x = ch.name`
ReadAccessor ==
  /\ ch.exists
  /\ \E name \in ChannelFields :
       got' = [op |-> "get", name |-> name, value |-> Get(ch, name), threw |-> FALSE]
  /\ UNCHANGED <<heap, heapIn, mutations, chArgs, chResult, ch, biArgs, biResult, bi>>

\* `ch.name = v`: the class defines a getter and no setter for each name, so
\* the assignment does nothing (it throws a TypeError in strict code)
AssignAccessor ==
  /\ ch.exists
  /\ \E name \in ChannelFields, v \in {Str(<<"x">>)}, strict \in BOOLEAN :
       got' = [op |-> "set", name |-> name, value |-> v, threw |-> strict]
  /\ UNCHANGED <<heap, heapIn, mutations, chArgs, chResult, ch, biArgs, biResult, bi>>

ChangeArray(r) ==
  /\ mutations < MaxMutations
  /\ \E m \in Changes(heap[r]) : heap' = [heap EXCEPT ![r] = Apply(heap[r], m)]
  /\ mutations' = mutations + 1

\* the caller changes, in place, the array it passed as sopInstanceUIDs
MutateChannelInput ==
  /\ chResult.called
  /\ IsArray(chArgs.sopInstanceUIDs)
  /\ ChangeArray(chArgs.sopInstanceUIDs.ref)
  /\ UNCHANGED <<heapIn, chArgs, chResult, ch, got, biArgs, biResult, bi>>

\* a consumer changes, in place, the array the sopInstanceUIDs getter returned
MutateChannelReturned ==
  /\ ch.exists
  /\ IsArray(sopInstanceUIDs(ch))
  /\ ChangeArray(sopInstanceUIDs(ch).ref)
  /\ UNCHANGED <<heapIn, chArgs, chResult, ch, got, biArgs, biResult, bi>>

(***************************************************************************)
(* The consumer of BlendingInformation.  The class has no method; the      *)
(* consumer constructs, constructs again, and changes the arrays it passed *)
(* in.  Writes through the instance's own public fields are not modelled.  *)
(***************************************************************************)
\* `bi = new BlendingInformation({opticalPathIdentifier, color, ...})`
NewBlendingInformation ==
  /\ ~biResult.called
  /\ \E op \in Identifiers, opacity \in Opacities, visible \in Visibilities,
        color \in ArrayLikeInputs, thr \in ArrayLikeInputs, lim \in ArrayLikeInputs :
      LET p1 == Place(<<>>, color)
          p2 == Place(p1.heap, thr)
          p3 == Place(p2.heap, lim)
          o == [opticalPathIdentifier |-> op, color |-> p1.val, opacity |-> opacity,
                thresholdValues |-> p2.val, limitValues |-> p3.val, visible |-> visible]
          r == BlendingInformation(o, p3.heap)
      IN /\ biArgs' = o
         /\ heapIn' = p3.heap
         /\ heap' = r.heap
         /\ biResult' = Ended(r)
         /\ bi' = Instance(r)
         /\ mutations' = 0
         /\ UNCHANGED chVars

\* `bi = new BlendingInformation({...})` again, with the same color,
\* thresholdValues and limitValues and any opticalPathIdentifier, opacity and
\* visible: the instance is replaced, as when a presentation control changes
ReplaceBlendingInformation ==
  /\ biResult.called
  /\ mutations = 0
  /\ \E op \in Identifiers, opacity \in Opacities, visible \in Visibilities :
      LET o == [biArgs EXCEPT !.opticalPathIdentifier = op, !.opacity = opacity,
                              !.visible = visible]
          r == BlendingInformation(o, heapIn)
      IN /\ biArgs' = o
         /\ heap' = r.heap
         /\ biResult' = Ended(r)
         /\ bi' = Instance(r)
         /\ UNCHANGED <<heapIn, mutations, chArgs, chResult, ch, got>>

BlendingArrayFields == {"color", "thresholdValues", "limitValues"}

\* the caller changes, in place, an array it passed as color,
\* thresholdValues or limitValues
MutateBlendingInput ==
  /\ biResult.called
  /\ \E f \in BlendingArrayFields :
       /\ IsArray(biArgs[f])
       /\ ChangeArray(biArgs[f].ref)
  /\ UNCHANGED <<heapIn, chArgs, chResult, ch, got, biArgs, biResult, bi>>

NextChannel ==
  \/ NewChannel
  \/ ReadAccessor
  \/ AssignAccessor
  \/ MutateChannelInput
  \/ MutateChannelReturned

NextBlending ==
  \/ NewBlendingInformation
  \/ ReplaceBlendingInformation
  \/ MutateBlendingInput

SpecChannel == Init /\ [][NextChannel]_vars
SpecBlending == Init /\ [][NextBlending]_vars

(***************************************************************************)
(* Vocabulary of the properties                                            *)
(***************************************************************************)
MissingFieldMessages ==
  {"Color is required.", "Threshold values are required.", "Limit values are required.",
   "Optical Path Identifier is required.", "Study Instance UID is required.",
   "Series Instance UID is required.", "SOP Instance UIDs are required."}
ShapeMessages ==
  {"Color must be provided as an array.", "An RGB color triplet must be provided.",
   "Threshold values must be provided as an array.",
   "Two threshold values must be provided.",
   "Limit values must be provided as an array.", "Two limit values must be provided."}

\* the two error kinds of the design; the code throws a plain Error either
\* way, so the kind is read off the message
ErrorKind(msg) ==
  IF msg \in MissingFieldMessages THEN "MissingFieldError"
  ELSE IF msg \in ShapeMessages THEN "ShapeError"
  ELSE "other"

Absent(v) == v = Undefined \/ v = Null
\* v is an array of exactly k elements in heap h
WellFormed(v, k, h) == v.t = "array" /\ Len(h[v.ref]) = k
\* v was supplied and is not an array of exactly k elements
Malformed(v, k, h) == ~Absent(v) /\ ~WellFormed(v, k, h)
\* a value together with the contents behind it
Deep(v, h) == [val |-> v, elems |-> IF v.t = "array" THEN h[v.ref] ELSE <<>>]

(***************************************************************************)
(* Channel                                                                 *)
(***************************************************************************)
\* C1: when none of the four options is undefined (null, the empty string
\* and the empty array included), construction succeeds and each accessor
\* returns exactly the value supplied: the same scalar, the same array, and
\* right after construction the array holds its elements in the order given.
C1_AccessorsReturnSupplied ==
  (chResult.called /\ \A f \in ChannelFields : chArgs[f] # Undefined) =>
    /\ ~chResult.threw
    /\ ch.exists
    /\ opticalPathIdentifier(ch) = chArgs.opticalPathIdentifier
    /\ studyInstanceUID(ch) = chArgs.studyInstanceUID
    /\ seriesInstanceUID(ch) = chArgs.seriesInstanceUID
    /\ sopInstanceUIDs(ch) = chArgs.sopInstanceUIDs
    /\ mutations = 0 =>
         Deep(sopInstanceUIDs(ch), heap) = Deep(chArgs.sopInstanceUIDs, heapIn)
    /\ got.op = "get" => got.value = chArgs[got.name]

C1_Witness ==
  /\ ch.exists
  /\ chArgs.opticalPathIdentifier = Str(<<>>)
  /\ chArgs.studyInstanceUID = Null
  /\ chArgs.sopInstanceUIDs.t = "array"
  /\ Len(heapIn[chArgs.sopInstanceUIDs.ref]) = 2
  /\ got.op = "get"
  /\ got.name = "sopInstanceUIDs"

\* C2: when any of the four options is undefined, construction throws an
\* Error of the missing-field kind and the consumer holds no Channel, not
\* even a partly filled one.
C2_MissingFieldNoInstance ==
  (chResult.called /\ \E f \in ChannelFields : chArgs[f] = Undefined) =>
    /\ chResult.threw
    /\ ErrorKind(chResult.error) = "MissingFieldError"
    /\ ch = NoInstance

C2_Witness ==
  /\ chResult.called
  /\ chArgs.sopInstanceUIDs = Undefined
  /\ \A f \in ChannelFields \ {"sopInstanceUIDs"} : chArgs[f] = Str(<<"C", "y", "5">>)
  /\ chResult.error = "SOP Instance UIDs are required."

\* C7: once a Channel exists, no consumer operation (reading an accessor,
\* assigning to an accessor name, changing in place the array passed as
\* sopInstanceUIDs or the array the accessor returned) changes what an
\* accessor yields: the same value with the same contents.
C7_ChannelImmutable ==
  [][ch.exists =>
       /\ ch'.exists
       /\ \A f \in ChannelFields : Deep(Get(ch', f), heap') = Deep(Get(ch, f), heap)]_vars

(***************************************************************************)
(* BlendingInformation                                                     *)
(***************************************************************************)
\* C3: when color, thresholdValues and limitValues are all supplied and one
\* of them is not an array or is an array of the wrong size (3, 2, 2),
\* construction throws an Error of the shape kind.
C3_ShapeErrorOnMalformed ==
  ( /\ biResult.called
    /\ ~Absent(biArgs.color) /\ ~Absent(biArgs.thresholdValues)
    /\ ~Absent(biArgs.limitValues)
    /\ \/ Malformed(biArgs.color, 3, heapIn)
       \/ Malformed(biArgs.thresholdValues, 2, heapIn)
       \/ Malformed(biArgs.limitValues, 2, heapIn) ) =>
    /\ biResult.threw
    /\ ErrorKind(biResult.error) = "ShapeError"

\* C4: when color, thresholdValues or limitValues is undefined or null,
\* construction throws and the consumer holds no instance; the Error is of
\* the missing-field kind for the first absent field once the fields checked
\* before it are well formed, whatever the fields checked after it are.
C4_MissingFieldOnAbsent ==
  biResult.called =>
    /\ ( \/ Absent(biArgs.color) \/ Absent(biArgs.thresholdValues)
         \/ Absent(biArgs.limitValues) ) => (biResult.threw /\ bi = NoInstance)
    /\ Absent(biArgs.color) => biResult.error = "Color is required."
    /\ (WellFormed(biArgs.color, 3, heapIn) /\ Absent(biArgs.thresholdValues)) =>
         biResult.error = "Threshold values are required."
    /\ ( /\ WellFormed(biArgs.color, 3, heapIn)
         /\ WellFormed(biArgs.thresholdValues, 2, heapIn)
         /\ Absent(biArgs.limitValues) ) =>
         biResult.error = "Limit values are required."
    /\ biResult.error \in {"Color is required.", "Threshold values are required.",
                           "Limit values are required."} =>
         ErrorKind(biResult.error) = "MissingFieldError"

C4_Witness ==
  /\ biResult.called
  /\ WellFormed(biArgs.color, 3, heapIn)
  /\ biArgs.thresholdValues = Null
  /\ biArgs.limitValues = Obj(3)
  /\ biResult.error = "Threshold values are required."

\* C5: for an instance built from arrays, whatever in-place changes the
\* caller then makes to those arrays, each stored field is an array other
\* than the caller's and holds what the caller's array held at construction.
C5_CopiesIndependentOfInput ==
  bi.exists =>
    \A f \in BlendingArrayFields :
      biArgs[f].t = "array" =>
        /\ bi.attrs[f].t = "array"
        /\ bi.attrs[f].ref # biArgs[f].ref
        /\ \A g \in BlendingArrayFields : biArgs[g].t = "array" =>
             bi.attrs[f].ref # biArgs[g].ref
        /\ heap[bi.attrs[f].ref] = heapIn[biArgs[f].ref]

C5_Witness ==
  /\ bi.exists
  /\ \A f \in BlendingArrayFields :
       /\ biArgs[f].t = "array"
       /\ f # "limitValues" => heap[biArgs[f].ref] # heapIn[biArgs[f].ref]
  /\ Len(heap[biArgs.color.ref]) = 4
  /\ Len(heap[biArgs.thresholdValues.ref]) = 1

\* C6: every instance that exists has a color of exactly 3 elements, and
\* thresholdValues and limitValues of exactly 2 elements each.
C6_FixedArities ==
  bi.exists =>
    /\ Len(heap[bi.attrs.color.ref]) = 3
    /\ Len(heap[bi.attrs.thresholdValues.ref]) = 2
    /\ Len(heap[bi.attrs.limitValues.ref]) = 2

\* C8: two constructions that agree on color, thresholdValues and
\* limitValues end the same way (both return, or both throw the same
\* error) whatever opticalPathIdentifier, opacity and visible are, and an
\* instance holds those three exactly as given.
BlendingKey ==
  <<Deep(biArgs.color, heapIn), Deep(biArgs.thresholdValues, heapIn),
    Deep(biArgs.limitValues, heapIn)>>

C8_UncheckedFieldsDoNotMatter ==
  [][/\ (biResult.called /\ biResult'.called /\ BlendingKey' = BlendingKey) =>
          biResult' = biResult
     /\ bi'.exists =>
          /\ bi'.attrs.opticalPathIdentifier = biArgs'.opticalPathIdentifier
          /\ bi'.attrs.opacity = biArgs'.opacity
          /\ bi'.attrs.visible = biArgs'.visible]_vars

C8_Witness ==
  /\ bi.exists
  /\ biArgs.opticalPathIdentifier = Undefined
  /\ biArgs.opacity = Undefined
  /\ biArgs.visible = Bool(TRUE)

\* C9: the checks run in the order color presence, color is an array, color
\* has 3 elements, thresholdValues presence, thresholdValues is an array,
\* thresholdValues has 2 elements, limitValues presence, the array check of
\* the limitValues block (made on thresholdValues), limitValues has length
\* 2; the error thrown is that of the first check in this order that the
\* input violates, and no validation error is thrown when it violates none.
LengthProperty(v, h) ==
  CASE v.t = "array" -> Len(h[v.ref])
    [] v.t = "string" -> Len(v.cps) + Cardinality({i \in 1..Len(v.cps) : v.cps[i] \in Astral})
    [] v.t = "object" -> v.n
    [] OTHER -> -1

OrderedChecks(o, h) ==
  << [violated |-> Absent(o.color), msg |-> "Color is required."],
     [violated |-> o.color.t # "array", msg |-> "Color must be provided as an array."],
     [violated |-> LengthProperty(o.color, h) # 3,
      msg |-> "An RGB color triplet must be provided."],
     [violated |-> Absent(o.thresholdValues), msg |-> "Threshold values are required."],
     [violated |-> o.thresholdValues.t # "array",
      msg |-> "Threshold values must be provided as an array."],
     [violated |-> LengthProperty(o.thresholdValues, h) # 2,
      msg |-> "Two threshold values must be provided."],
     [violated |-> Absent(o.limitValues), msg |-> "Limit values are required."],
     [violated |-> o.thresholdValues.t # "array",
      msg |-> "Limit values must be provided as an array."],
     [violated |-> LengthProperty(o.limitValues, h) # 2,
      msg |-> "Two limit values must be provided."] >>

ViolatedChecks(o, h) ==
  {k \in DOMAIN OrderedChecks(o, h) : OrderedChecks(o, h)[k].violated}

FirstViolated(o, h) ==
  CHOOSE k \in ViolatedChecks(o, h) : \A j \in ViolatedChecks(o, h) : k <= j

ValidationMessages == {"Color is required.", "Threshold values are required.",
                       "Limit values are required."} \cup ShapeMessages

C9_EarliestViolatedCheckReported ==
  biResult.called =>
    IF ViolatedChecks(biArgs, heapIn) = {}
      THEN biResult.error \notin ValidationMessages
      ELSE /\ biResult.threw
           /\ biResult.error = OrderedChecks(biArgs, heapIn)[FirstViolated(biArgs, heapIn)].msg

C9_Witness ==
  /\ biResult.called
  /\ biArgs.color = Num(2)
  /\ biArgs.thresholdValues = Null
  /\ biArgs.limitValues = Obj(3)
  /\ Cardinality(ViolatedChecks(biArgs, heapIn)) > 3
  /\ biResult.error = "Color must be provided as an array."

\* C10: 'Limit values must be provided as an array.' is never thrown; with
\* color and thresholdValues well formed, a limitValues that is supplied and
\* is not an array is rejected by the validation exactly when its length
\* property is not 2, and with a length of 2 it passes every check.
C10_LimitArrayErrorUnreachable ==
  biResult.called =>
    /\ biResult.error # "Limit values must be provided as an array."
    /\ ( /\ WellFormed(biArgs.color, 3, heapIn)
         /\ WellFormed(biArgs.thresholdValues, 2, heapIn)
         /\ ~Absent(biArgs.limitValues)
         /\ biArgs.limitValues.t # "array" ) =>
         IF LengthProperty(biArgs.limitValues, heapIn) = 2
           THEN biResult.error \notin ValidationMessages
           ELSE biResult.error = "Two limit values must be provided."

C10_Witness ==
  /\ bi.exists
  /\ biArgs.limitValues = Str(<<"a", "b">>)
  /\ heap[bi.attrs.limitValues.ref] = <<Str(<<"a">>), Str(<<"b">>)>>

=============================================================================
